---- MODULE Spec2Model ----
(***************************************************************************)
(* IServTool (src/README.md, lines 169-463): a client of the IServ school  *)
(* portal.  The state is one client instance (its reuseCookies flag and    *)
(* the Cookie header of its axios instance), the cookie file ./headers,    *)
(* and the async calls the caller has started, each at its await point.    *)
(* The server is a black box: it answers every request with any status,    *)
(* any Set-Cookie header and a body, or the transport fails with no        *)
(* response at all.                                                        *)
(***************************************************************************)
EXTENDS Integers, Sequences, FiniteSets, Bags, TLC

(***************************************************************************)
(* Bounds of the model.                                                    *)
(***************************************************************************)
\* Calls of one client that may be in flight (started, not yet returned to
\* the caller) at once in the concurrent specification.
MaxInFlight == 2

\* validateStatus: status >= 200 && status < 303.
StatusLow == 200
StatusHigh == 303
\* Defaults of getMessagesForInbox and getUpcomingEvents.
DefaultLength == 50
DefaultStart == 0
DefaultLimit == 14

(***************************************************************************)
(* JavaScript values.                                                      *)
(***************************************************************************)
Undefined == [t |-> "undefined"]
Str(s) == [t |-> "str", s |-> s]
Num(n) == [t |-> "num", n |-> n]
Bool(b) == [t |-> "bool", b |-> b]
\* An array of strings: the shape of headers["set-cookie"] in Node.
Arr(a) == [t |-> "arr", a |-> a]

\* ToBoolean, as used by !x, x || y and if (x).
Truthy(v) ==
    CASE v.t = "undefined" -> FALSE
      [] v.t = "str" -> v.s # ""
      [] v.t = "num" -> v.n # 0
      [] v.t = "bool" -> v.b
      [] OTHER -> TRUE

\* a || b
OrElse(a, b) == IF Truthy(a) THEN a ELSE b

\* String(v) inside a template literal.
ToStr(v) ==
    CASE v.t = "undefined" -> "undefined"
      [] v.t = "str" -> v.s
      [] OTHER -> "object"

\* encodeURIComponent on the strings the model passes as `since`.
encodeURIComponent(s) ==
    CASE s = "2018-12-29T23:21:00+01:00" -> "2018-12-29T23%3A21%3A00%2B01%3A00"
      [] OTHER -> s

(***************************************************************************)
(* JSON text, as a sequence of tokens.                                     *)
(***************************************************************************)
Punct(c) == [k |-> "punct", c |-> c]
Lit(s) == [k |-> "string", c |-> s]
Word(w) == [k |-> "word", c |-> w]

RECURSIVE Elements(_)
Elements(a) ==
    IF Len(a) = 0 THEN <<>>
    ELSE IF Len(a) = 1 THEN <<Lit(a[1])>>
    ELSE <<Lit(a[1]), Punct(",")>> \o Elements(Tail(a))

\* JSON.stringify(v): undefined for undefined (not a string), the text
\* otherwise.
JSONstringify(v) ==
    CASE v.t = "undefined" -> [ok |-> FALSE, text |-> <<>>]
      [] v.t = "arr" -> [ok |-> TRUE,
                         text |-> <<Punct("[")>> \o Elements(v.a) \o <<Punct("]")>>]
      [] v.t = "str" -> [ok |-> TRUE, text |-> <<Lit(v.s)>>]
      [] OTHER -> [ok |-> TRUE, text |-> <<Word("null")>>]

\* The elements of the text between [ and ]: string (, string)*.
RECURSIVE ParseElements(_)
ParseElements(ts) ==
    IF Len(ts) = 0 THEN [ok |-> FALSE, a |-> <<>>]
    ELSE IF ts[1].k # "string" THEN [ok |-> FALSE, a |-> <<>>]
    ELSE IF Len(ts) = 1 THEN [ok |-> TRUE, a |-> <<ts[1].c>>]
    ELSE IF ts[2] # Punct(",") THEN [ok |-> FALSE, a |-> <<>>]
    ELSE LET rest == ParseElements(SubSeq(ts, 3, Len(ts)))
         IN [ok |-> rest.ok, a |-> <<ts[1].c>> \o rest.a]

\* JSON.parse(text): a value, or a SyntaxError (ok = FALSE).
JSONparse(text) ==
    IF Len(text) = 1 /\ text[1].k = "string"
    THEN [ok |-> TRUE, value |-> Str(text[1].c)]
    ELSE IF Len(text) >= 2 /\ text[1] = Punct("[") /\ text[Len(text)] = Punct("]")
    THEN IF Len(text) = 2 THEN [ok |-> TRUE, value |-> Arr(<<>>)]
         ELSE LET e == ParseElements(SubSeq(text, 2, Len(text) - 1))
              IN [ok |-> e.ok, value |-> IF e.ok THEN Arr(e.a) ELSE Undefined]
    ELSE [ok |-> FALSE, value |-> Undefined]

(***************************************************************************)
(* The file ./headers.                                                     *)
(***************************************************************************)
NoFile == [exists |-> FALSE, text |-> <<>>]
FileOf(text) == [exists |-> TRUE, text |-> text]

(***************************************************************************)
(* The server and axios.                                                   *)
(***************************************************************************)
\* Set-Cookie headers a login response may carry.
SetCookieValues == {Arr(<<"sid=1">>), Arr(<<"sid=2", "lang=de">>)}
Statuses == {200, 302, 303, 401}
Bodies == {"body"}

NoResponse == [t |-> "noresponse"]
Response(status, setCookie, body) ==
    [t |-> "response", status |-> status, setCookie |-> setCookie, body |-> body]

\* What may come back for one request.
Outcomes ==
    {NoResponse} \cup
    {Response(s, c, b) : s \in Statuses, c \in SetCookieValues \cup {Undefined},
                         b \in Bodies}

validateStatus(status) == status >= StatusLow /\ status < StatusHigh

\* The promise of this._axios(config) settles: resolved with the response, or
\* rejected with an error whose response is undefined on a transport failure.
Resolved(o) == o.t = "response" /\ validateStatus(o.status)

AxiosError(o) ==
    IF o.t = "response"
    THEN [name |-> "AxiosError", response |-> [t |-> "object", status |-> o.status]]
    ELSE [name |-> "AxiosError", response |-> Undefined]

\* resp.data under the request's responseType.
ResponseData(responseType, o) ==
    IF responseType = "arraybuffer"
    THEN [t |-> "buffer", of |-> o.body]
    ELSE [t |-> "parsed", of |-> o.body]

(***************************************************************************)
(* Results of a call, as the caller sees them.                             *)
(***************************************************************************)
Pending == [k |-> "pending"]
Returns(v) == [k |-> "return", v |-> v]
Throws(e) == [k |-> "throw", e |-> e]

ValidationError(msg) == [name |-> "Error", message |-> msg]
TypeError(msg) == [name |-> "TypeError", message |-> msg]
SyntaxError == [name |-> "SyntaxError", message |-> "JSON.parse"]

(***************************************************************************)
(* State.                                                                  *)
(***************************************************************************)
VARIABLES
    client,      \* the instance: constructor outcome, reuseCookies, Cookie header
    file,        \* ./headers
    calls,       \* the async calls in flight, each at its await (a bag)
    returned,    \* the call that settled last, as its caller sees it
    lastLogin,   \* Set-Cookie of the POST login of this instance that finished last
    savedBy,     \* Set-Cookie handed to the write that made the file's content
    loadedFrom,  \* savedBy as it was when the constructor read the file
    fileAccess   \* the instance has called fs on ./headers

vars ==
    <<client, file, calls, returned, lastLogin, savedBy, loadedFrom, fileAccess>>

None == [some |-> FALSE, v |-> Undefined]
Some(v) == [some |-> TRUE, v |-> v]

\* Values of the reuseCookies argument: left out (examples/basic.js) or true.
ReuseInputs == {Undefined, Bool(TRUE)}

NoRequest == [method |-> "none"]

Nothing == [t |-> "nothing"]

\* A call: the operation, its arguments, the await it is at (for a settled
\* call, the one it settled at), the request it awaits, the requests and POSTs
\* it has sent, what isCookieValid gave login, the Set-Cookie header login
\* holds, what came back for the request it settled on, and its result.
NoCall ==
    [op |-> "none", args |-> Undefined, pc |-> "none", req |-> NoRequest,
     nreq |-> 0, npost |-> 0, probe |-> Pending, data |-> Undefined,
     got |-> Nothing, result |-> Pending]

\* What came back, as a mock transport records it: the status and the body.
Seen(o) ==
    IF o.t = "response" THEN [t |-> "response", status |-> o.status, body |-> o.body]
    ELSE o

InFlight == BagCardinality(calls)
Quiet == InFlight = 0
Awaiting == BagToSet(calls)

\* The bag with call c settled or moved on to d.
Put(c) == calls (+) SetToBag({c})
Moved(c, d) == (calls (-) SetToBag({c})) (+) SetToBag({d})
Settled(c) == calls (-) SetToBag({c})

\* A request of this._axios: the config merged with the instance's defaults.
Request(method, url, params, contentType, form, responseType) ==
    [method |-> method, url |-> url, params |-> params,
     cookie |-> client.cookie, contentType |-> contentType, form |-> form,
     responseType |-> responseType]

NoParams == [p \in {} |-> Undefined]

(***************************************************************************)
(* constructor and _getPresavedHeaders.                                    *)
(***************************************************************************)
\* _getPresavedHeaders(): the parsed file under reuse, undefined otherwise;
\* JSON.parse may throw.
_getPresavedHeaders(reuse, f) ==
    IF Truthy(reuse) /\ f.exists
    THEN LET p == JSONparse(f.text)
         IN IF p.ok THEN Returns(p.value) ELSE Throws(SyntaxError)
    ELSE Returns(Undefined)

\* this.reuseCookies && fs.existsSync('./headers'): fs is called under reuse
\* alone.
PresavedTouchesFile(reuse) == Truthy(reuse)

\* A faulty constructor: the loaded cookies never reach the axios headers.
constructorIgnoresFile(reuse, f) ==
    [ctor |-> Returns(Undefined), reuseCookies |-> reuse, cookie |-> Str("")]

\* The instance new IServTool(..., reuseCookies) yields over file f.
constructor(reuse, f) ==
    LET cookies == _getPresavedHeaders(reuse, f)
    IN IF cookies.k = "throw"
       THEN [ctor |-> cookies, reuseCookies |-> reuse, cookie |-> Str("")]
       ELSE [ctor |-> Returns(Undefined), reuseCookies |-> reuse,
             cookie |-> OrElse(cookies.v, Str(""))]

Alive == client.ctor.k = "return"

Init ==
    /\ file = NoFile
    /\ \E reuse \in ReuseInputs : client = constructor(reuse, NoFile)
    /\ calls = EmptyBag
    /\ returned = NoCall
    /\ lastLogin = None
    /\ savedBy = None
    /\ loadedFrom = None
    /\ fileAccess = PresavedTouchesFile(client.reuseCookies)

\* A fresh instance over the same file, once the calls of the old one are over.
Construct(reuse) ==
    /\ Quiet
    /\ client' = constructor(reuse, file)
    /\ loadedFrom' = IF Truthy(reuse) /\ file.exists /\ client'.ctor.k = "return"
                      THEN savedBy ELSE None
    /\ fileAccess' = PresavedTouchesFile(reuse)
    /\ lastLogin' = None
    /\ returned' = NoCall
    /\ UNCHANGED <<file, calls, savedBy>>

(***************************************************************************)
(* isCookieValid.                                                          *)
(***************************************************************************)
ProbeRequest == Request("GET", <<"iserv/">>, NoParams, Undefined, Undefined, "json")

\* What isCookieValid() gives once its GET settled with o.  The catch block
\* reads e.response.status to build its log line.
IsCookieValidResult(o) ==
    IF Resolved(o) THEN Returns(Bool(TRUE))
    ELSE IF AxiosError(o).response = Undefined
         THEN Throws(TypeError("Cannot read property 'status' of undefined"))
         ELSE Returns(Bool(FALSE))

isCookieValid ==
    /\ Alive
    /\ calls' = Put([NoCall EXCEPT !.op = "isCookieValid", !.pc = "wait",
                                   !.req = ProbeRequest, !.nreq = 1])
    /\ returned' = NoCall
    /\ UNCHANGED <<client, file, lastLogin, savedBy, loadedFrom, fileAccess>>

IsCookieValidSettled(c, o) ==
    /\ c.op = "isCookieValid"
    /\ c.pc = "wait"
    /\ calls' = Settled(c)
    /\ returned' = [c EXCEPT !.req = NoRequest, !.got = Seen(o),
                             !.result = IsCookieValidResult(o)]
    /\ UNCHANGED <<client, file, lastLogin, savedBy, loadedFrom, fileAccess>>

(***************************************************************************)
(* login and _saveCookies.                                                 *)
(***************************************************************************)
\* querystring.stringify({_username, _password})
LoginForm == <<"_username", "=", "username", "&", "_password", "=", "password">>

LoginRequest ==
    Request("POST", <<"/iserv/login_check">>, NoParams, Undefined, LoginForm, "json")

\* login() up to its first await: the probe under reuse, the POST otherwise.
login ==
    /\ Alive
    /\ IF Truthy(client.reuseCookies)
       THEN calls' = Put([NoCall EXCEPT !.op = "login", !.pc = "probe",
                                        !.req = ProbeRequest, !.nreq = 1])
       ELSE calls' = Put([NoCall EXCEPT !.op = "login", !.pc = "post",
                                        !.req = LoginRequest, !.nreq = 1,
                                        !.npost = 1])
    /\ returned' = NoCall
    /\ UNCHANGED <<client, file, lastLogin, savedBy, loadedFrom, fileAccess>>

\* A faulty AfterProbe: the early return left out.
AfterProbeNeverReturns(v) == IF v.k = "throw" THEN "raise" ELSE "post"

\* if (this.reuseCookies && await this.isCookieValid()) return; once the
\* await settled with v: raise what it raised, return on true, go on to the
\* POST on false.
AfterProbe(v) ==
    IF v.k = "throw" THEN "raise"
    ELSE IF Truthy(v.v) THEN "return"
    ELSE "post"

LoginProbed(c, o) ==
    /\ c.op = "login"
    /\ c.pc = "probe"
    /\ LET v == IsCookieValidResult(o)
       IN IF AfterProbe(v) = "raise"
          THEN /\ calls' = Settled(c)
               /\ returned' = [c EXCEPT !.req = NoRequest, !.got = Seen(o),
                                        !.probe = v, !.result = v]
          ELSE IF AfterProbe(v) = "return"
          THEN /\ calls' = Settled(c)
               /\ returned' = [c EXCEPT !.req = NoRequest, !.got = Seen(o),
                                        !.probe = v, !.result = Returns(Undefined)]
          ELSE /\ calls' = Moved(c, [c EXCEPT !.pc = "post", !.req = LoginRequest,
                                              !.probe = v, !.nreq = @ + 1,
                                              !.npost = @ + 1])
               /\ UNCHANGED returned
    /\ UNCHANGED <<client, file, lastLogin, savedBy, loadedFrom, fileAccess>>

\* The POST settled: raise its error, or hold data.headers["set-cookie"] over
\* the await of axios.create.
LoginPosted(c, o) ==
    /\ c.op = "login"
    /\ c.pc = "post"
    /\ IF Resolved(o)
       THEN /\ calls' = Moved(c, [c EXCEPT !.pc = "create", !.req = NoRequest,
                                           !.data = o.setCookie])
            /\ UNCHANGED returned
       ELSE /\ calls' = Settled(c)
            /\ returned' = [c EXCEPT !.req = NoRequest, !.got = Seen(o),
                                     !.result = Throws(AxiosError(o))]
    /\ UNCHANGED <<client, file, lastLogin, savedBy, loadedFrom, fileAccess>>

\* What fs.writeFileSync('./headers', undefined) does depends on the Node
\* release: it throws ERR_INVALID_ARG_TYPE, or it writes the text undefined.
WriteUndefinedOutcomes == {"throws", "writes"}

\* The Cookie header of the axios instance login() builds.
NewCookie(setCookie) == OrElse(setCookie, Str(""))

\* A faulty _saveCookies: the reuseCookies test left out.
_saveCookiesAlways(reuse, h, f, node) ==
    LET s == JSONstringify(h)
    IN IF s.ok
       THEN [file |-> FileOf(s.text), threw |-> FALSE, wrote |-> TRUE, fs |-> TRUE]
       ELSE [file |-> f, threw |-> TRUE, wrote |-> FALSE, fs |-> TRUE]

\* _saveCookies(h) over file f: the file after it, whether it threw, whether
\* it wrote, whether it called fs.
_saveCookies(reuse, h, f, node) ==
    IF ~Truthy(reuse)
    THEN [file |-> f, threw |-> FALSE, wrote |-> FALSE, fs |-> FALSE]
    ELSE LET s == JSONstringify(h)
         IN IF s.ok
            THEN [file |-> FileOf(s.text), threw |-> FALSE, wrote |-> TRUE,
                  fs |-> TRUE]
            ELSE IF node = "throws"
            THEN [file |-> f, threw |-> TRUE, wrote |-> FALSE, fs |-> TRUE]
            ELSE [file |-> FileOf(<<Word("undefined")>>), threw |-> FALSE,
                  wrote |-> TRUE, fs |-> TRUE]

\* After the await of axios.create: this._axios is replaced, the cookie is
\* saved, login() is over.
LoginSwap(c, node) ==
    /\ c.op = "login"
    /\ c.pc = "create"
    /\ LET saved == _saveCookies(client.reuseCookies, c.data, file, node)
       IN /\ client' = [client EXCEPT !.cookie = NewCookie(c.data)]
          /\ file' = saved.file
          /\ savedBy' = IF saved.wrote THEN Some(c.data) ELSE savedBy
          /\ fileAccess' = (fileAccess \/ saved.fs)
          /\ returned' = [c EXCEPT
                            !.result =
                                IF saved.threw
                                THEN Throws(TypeError("ERR_INVALID_ARG_TYPE"))
                                ELSE Returns(Undefined)]
    /\ calls' = Settled(c)
    /\ lastLogin' = Some(c.data)
    /\ UNCHANGED loadedFrom

(***************************************************************************)
(* The endpoints.  Each gives what the method does before its await: the   *)
(* error it throws, or the config of its one request, and whether the      *)
(* await sits in a try whose catch returns false.                          *)
(***************************************************************************)
Invalid(msg) ==
    [error |-> Str(msg), url |-> <<>>, params |-> NoParams, contentType |-> Undefined,
     responseType |-> "json", catches |-> FALSE]

Get(url, params, contentType, responseType, catches) ==
    [error |-> Undefined, url |-> url, params |-> params,
     contentType |-> contentType, responseType |-> responseType,
     catches |-> catches]

\* A faulty Default: the default written as v || d.
DefaultIfFalsy(v, d) == IF Truthy(v) THEN v ELSE d

\* A default parameter: taken when the argument is undefined.
Default(v, d) == IF v = Undefined THEN d ELSE v

FormType == Str("application/x-www-form-urlencoded")

getNotifications(a) ==
    IF ~Truthy(a.since) THEN Invalid("No since given")
    ELSE Get(<<"/iserv/user/api/notifications?since=",
               encodeURIComponent(ToStr(a.since))>>,
             NoParams, Undefined, "json", FALSE)

getMailFolders(a) ==
    Get(<<"iserv/mail/api/folder/list">>, NoParams, Undefined, "json", FALSE)

getUnreadMails(a) ==
    Get(<<"iserv/mail/api/unread/inbox">>, NoParams, Undefined, "json", FALSE)

getMessagesForInbox(a) ==
    LET path == Default(a.path, Str("INBOX"))
        length == Default(a.length, Num(DefaultLength))
        start == Default(a.start, Num(DefaultStart))
        column == Default(a.column, Str("date"))
        dir == Default(a.dir, Str("desc"))
    IN Get(<<"iserv/mail/api/message/list">>,
           [path |-> path, length |-> length, start |-> start]
               @@ ("order[column]" :> column) @@ ("order[dir]" :> dir),
           FormType, "json", FALSE)

getUpcomingEvents(a) ==
    LET includeSubscriptions == Default(a.includeSubscriptions, Bool(FALSE))
        limit == Default(a.limit, Num(DefaultLimit))
    IN Get(<<"iserv/calendar/api/upcoming">>,
           [includeSubscriptions |-> includeSubscriptions, limit |-> limit],
           FormType, "json", FALSE)

\* A faulty getUserProfilePic: the await outside any try.
getUserProfilePicNoCatch(a) ==
    Get(<<"iserv/addressbook/public/image/", ToStr(a.user), "/photo/",
          ToStr(IF a.w = Undefined THEN Str("") ELSE a.w), "/",
          ToStr(IF a.h = Undefined THEN Str("") ELSE a.h)>>,
        NoParams, Undefined, "arraybuffer", FALSE)

getUserProfilePic(a) ==
    LET w == Default(a.w, Str(""))
        h == Default(a.h, Str(""))
    IN Get(<<"iserv/addressbook/public/image/", ToStr(a.user), "/photo/",
             ToStr(w), "/", ToStr(h)>>,
           NoParams, Undefined, "arraybuffer", TRUE)

getMessageByID(a) ==
    LET path == Default(a.path, Str("INBOX"))
    IN IF ~Truthy(path) THEN Invalid("No message ID given")
       ELSE Get(<<"/iserv/mail/api/message">>, [path |-> path, msg |-> a.id],
                Undefined, "json", FALSE)

userLookup(a) ==
    IF ~Truthy(a.query) THEN Invalid("No query given to user lookup")
    ELSE Get(<<"iserv/addressbook/lookup?query=warnke">>, [query |-> a.query],
             Undefined, "json", FALSE)

getFolderTree(a) ==
    LET subfolder == Default(a.subfolder, Str(""))
    IN Get(<<"iserv/file.json/", ToStr(subfolder)>>, NoParams, Undefined, "json",
           FALSE)

getEventSources(a) ==
    Get(<<"iserv/calendar/api/eventsources">>, NoParams, Undefined, "json", FALSE)

getEventsFromSource(a) ==
    Get(<<"iserv/calendar/api/feed">>,
        [cal |-> a.source, start |-> a.start, end |-> a.end],
        Undefined, "json", FALSE)

EndpointOps ==
    {"getNotifications", "getMailFolders", "getUnreadMails", "getMessagesForInbox",
     "getUpcomingEvents", "getUserProfilePic", "getMessageByID", "userLookup",
     "getFolderTree", "getEventSources", "getEventsFromSource"}

Endpoint(op, a) ==
    CASE op = "getNotifications" -> getNotifications(a)
      [] op = "getMailFolders" -> getMailFolders(a)
      [] op = "getUnreadMails" -> getUnreadMails(a)
      [] op = "getMessagesForInbox" -> getMessagesForInbox(a)
      [] op = "getUpcomingEvents" -> getUpcomingEvents(a)
      [] op = "getUserProfilePic" -> getUserProfilePic(a)
      [] op = "getMessageByID" -> getMessageByID(a)
      [] op = "userLookup" -> userLookup(a)
      [] op = "getFolderTree" -> getFolderTree(a)
      [] op = "getEventSources" -> getEventSources(a)
      [] op = "getEventsFromSource" -> getEventsFromSource(a)

\* The arguments a caller may pass: left out (undefined), empty, or a value.
Given(v) == {Undefined, Str(""), Str(v)}
Maybe(v) == {Undefined, v}

ArgVectors(op) ==
    CASE op = "getNotifications" -> [since : Given("2018-12-29T23:21:00+01:00")]
      [] op = "getMessagesForInbox" ->
            [path : Maybe(Str("")), length : Maybe(Num(0)), start : Maybe(Num(50)),
             column : Maybe(Str("subject")), dir : Maybe(Str("asc"))]
      [] op = "getUpcomingEvents" ->
            [includeSubscriptions : {Undefined, Bool(FALSE), Bool(TRUE)},
             limit : {Undefined, Num(0), Num(5)}]
      [] op = "getUserProfilePic" ->
            [user : Given("alice"), w : Maybe(Str("64")), h : Maybe(Str("48"))]
      [] op = "getMessageByID" -> [id : Given("42"), path : Given("Sent")]
      [] op = "userLookup" -> [query : Given("warnke")]
      [] op = "getFolderTree" -> [subfolder : Maybe(Str("Files"))]
      [] op = "getEventsFromSource" ->
            [source : Given("/cal/home"), start : Given("2019-01-01"),
             end : Given("2019-02-01")]
      [] OTHER -> {Undefined}

\* An endpoint method up to its await.
CallEndpoint(op, a) ==
    /\ Alive
    /\ LET e == Endpoint(op, a)
       IN IF e.error # Undefined
          THEN /\ returned' = [NoCall EXCEPT !.op = op, !.args = a, !.pc = "validate",
                                 !.result = Throws(ValidationError(e.error.s))]
               /\ UNCHANGED calls
          ELSE /\ calls' = Put([NoCall EXCEPT !.op = op, !.args = a, !.pc = "wait",
                                  !.req = Request("GET", e.url, e.params,
                                                  e.contentType, Undefined,
                                                  e.responseType),
                                  !.nreq = 1])
               /\ returned' = NoCall
    /\ UNCHANGED <<client, file, lastLogin, savedBy, loadedFrom, fileAccess>>

\* A faulty EndpointResult: every method catches and returns false.
EndpointResultSwallows(c, o) ==
    IF Resolved(o) THEN Returns(ResponseData(c.req.responseType, o))
    ELSE Returns(Bool(FALSE))

\* What the method gives once its request settled with o.
EndpointResult(c, o) ==
    IF Resolved(o) THEN Returns(ResponseData(c.req.responseType, o))
    ELSE IF Endpoint(c.op, c.args).catches THEN Returns(Bool(FALSE))
    ELSE Throws(AxiosError(o))

EndpointSettled(c, o) ==
    /\ c.op \in EndpointOps
    /\ c.pc = "wait"
    /\ calls' = Settled(c)
    /\ returned' = [c EXCEPT !.req = NoRequest, !.got = Seen(o),
                             !.result = EndpointResult(c, o)]
    /\ UNCHANGED <<client, file, lastLogin, savedBy, loadedFrom, fileAccess>>

(***************************************************************************)
(* Specifications.                                                         *)
(***************************************************************************)
\* The endpoint calls of the concurrent specification: one that propagates
\* errors, the one that catches them, one that fails validation.
ConcurrentCalls ==
    {<<"getMailFolders", Undefined>>,
     <<"getUserProfilePic", [user |-> Str("alice"), w |-> Undefined, h |-> Undefined]>>,
     <<"getNotifications", [since |-> Undefined]>>}

\* Session steps: the same in both specifications.
Settle ==
    \/ \E c \in Awaiting, o \in Outcomes : LoginProbed(c, o)
    \/ \E c \in Awaiting, o \in Outcomes : LoginPosted(c, o)
    \/ \E c \in Awaiting, o \in Outcomes : IsCookieValidSettled(c, o)
    \/ \E c \in Awaiting, o \in Outcomes : EndpointSettled(c, o)
    \/ \E c \in Awaiting, node \in WriteUndefinedOutcomes : LoginSwap(c, node)

\* A caller that starts calls without awaiting the earlier ones, up to
\* MaxInFlight at once.
Next ==
    \/ \E reuse \in ReuseInputs : Construct(reuse)
    \/ InFlight < MaxInFlight /\ login
    \/ InFlight < MaxInFlight /\ isCookieValid
    \/ \E x \in ConcurrentCalls : InFlight < MaxInFlight /\ CallEndpoint(x[1], x[2])
    \/ Settle

Spec == Init /\ [][Next]_vars

\* A caller that awaits every call before the next (examples/basic.js), over
\* every endpoint and every argument vector.
NextSeq ==
    \/ \E reuse \in ReuseInputs : Construct(reuse)
    \/ Quiet /\ login
    \/ Quiet /\ isCookieValid
    \/ \E op \in EndpointOps : \E a \in ArgVectors(op) : Quiet /\ CallEndpoint(op, a)
    \/ Settle

SpecSeq == Init /\ [][NextSeq]_vars

(***************************************************************************)
(* The claims.                                                             *)
(***************************************************************************)
\* A success status as the specification gives it: 200..302.
Success(g) == g.t = "response" /\ g.status >= 200 /\ g.status <= 302

\* The error axios raises for what came back.
ErrorOf(g) ==
    [name |-> "AxiosError",
     response |-> IF g.t = "response" THEN [t |-> "object", status |-> g.status]
                  ELSE Undefined]

\* The Cookie header for a Set-Cookie header: the header, empty when absent.
CookieOf(h) == IF h = Undefined THEN Str("") ELSE h

\* The step is the end of login call c after its POST succeeded.
PostLoginEnds(c) ==
    c.op = "login" /\ c.pc = "create" /\ c.npost = 1 /\ calls' = Settled(c)

\* The step is a construction.
Constructs == BagCardinality(calls') = 0 /\ returned' = NoCall

\* The parameters the catalog lists as required.
RequiredParams(op) ==
    CASE op = "getNotifications" -> {"since"}
      [] op = "getUserProfilePic" -> {"user"}
      [] op = "getMessageByID" -> {"id", "path"}
      [] op = "userLookup" -> {"query"}
      [] op = "getEventsFromSource" -> {"source", "start", "end"}
      [] OTHER -> {}

\* Parameter p of the call is omitted or empty (path has a default: empty only).
Omitted(op, a, p) ==
    IF op = "getMessageByID" /\ p = "path" THEN a[p] = Str("")
    ELSE a[p] \in {Undefined, Str("")}

MissesRequired(c) == \E p \in RequiredParams(c.op) : Omitted(c.op, c.args, p)

\* C1: a call of an endpoint with a required parameter omitted or empty
\* raises a validation error and sends no request: no such call is ever awaiting
\* a response, and the one that settled last raised an Error with no request sent.
C1_RequiredParamsValidated ==
    /\ \A c \in Awaiting : c.op \in EndpointOps => ~MissesRequired(c)
    /\ (returned.op \in EndpointOps /\ MissesRequired(returned)) =>
           /\ returned.result.k = "throw"
           /\ returned.result.e.name = "Error"
           /\ returned.nreq = 0

\* C2: isCookieValid() never raises: it returns true when the probe came back
\* with a success status and false for every other outcome, a transport
\* failure with no response included.
C2_IsCookieValidNeverRaises ==
    returned.op = "isCookieValid" =>
        returned.result = Returns(Bool(Success(returned.got)))

\* C3: under reuseCookies, a login() whose isCookieValid() gave true returns
\* having sent the probe alone and no POST, and the step that ends it leaves
\* the Cookie header and the file as they were.
C3_FastPathSkipsPost ==
    [][/\ (/\ returned'.op = "login"
           /\ Truthy(client'.reuseCookies)
           /\ returned'.probe = Returns(Bool(TRUE))) =>
              /\ returned'.npost = 0
              /\ returned'.nreq = 1
              /\ returned'.result = Returns(Undefined)
       /\ \A c \in Awaiting :
              (/\ c.op = "login"
               /\ c.pc = "probe"
               /\ calls' = Settled(c)
               /\ returned'.probe = Returns(Bool(TRUE))) =>
                  client' = client /\ file' = file]_vars

C3_Witness ==
    /\ returned.op = "login"
    /\ Truthy(client.reuseCookies)
    /\ returned.probe = Returns(Bool(TRUE))
    /\ returned.result = Returns(Undefined)
    /\ client.cookie = Arr(<<"sid=1">>)
    /\ file.exists

\* C4: a login() under no reuse, or whose probe did not succeed, has sent
\* exactly one POST when it is over; when it ends after a successful POST the
\* Cookie header is the Set-Cookie value of the response; and every request
\* sent after a POST login carries the Set-Cookie value of the last one.
C4_LoginPostsAndReplacesCookie ==
    [][/\ (/\ returned'.op = "login"
           /\ (~Truthy(client'.reuseCookies)
                  \/ returned'.probe # Returns(Bool(TRUE)))) =>
              returned'.npost = 1
       /\ \A c \in Awaiting :
              PostLoginEnds(c) => client'.cookie = CookieOf(c.data)
       /\ \A d \in BagToSet(calls') :
              (/\ lastLogin.some
               /\ d.req # NoRequest
               /\ CopiesIn(d, calls') > CopiesIn(d, calls)) =>
                  d.req.cookie = CookieOf(lastLogin.v)]_vars

\* C5: the cookie a POST login captured and saved comes back from the file
\* as it was: a client constructed over the file under reuse has it as its
\* Cookie header, sends it on every request until a POST login of its own
\* ends, and its login() sends no POST when the probe succeeds.
C5_PersistedCookieRoundTrip ==
    /\ (savedBy.some /\ savedBy.v # Undefined) =>
           constructor(Bool(TRUE), file) =
               [ctor |-> Returns(Undefined), reuseCookies |-> Bool(TRUE),
                cookie |-> savedBy.v]
    /\ (Alive /\ loadedFrom.some /\ ~lastLogin.some) =>
           /\ client.cookie = loadedFrom.v
           /\ loadedFrom.v \in SetCookieValues
           /\ \A c \in Awaiting : c.req # NoRequest => c.req.cookie = loadedFrom.v
    /\ (/\ Alive
        /\ loadedFrom.some
        /\ returned.op = "login"
        /\ returned.pc = "probe"
        /\ Success(returned.got)) =>
           returned.npost = 0 /\ returned.result = Returns(Undefined)

C5_Witness ==
    /\ Alive
    /\ loadedFrom = Some(Arr(<<"sid=2", "lang=de">>))
    /\ ~lastLogin.some
    /\ client.cookie = Arr(<<"sid=2", "lang=de">>)
    /\ returned.op = "login"
    /\ returned.npost = 0
    /\ returned.result = Returns(Undefined)

\* C6: getUserProfilePic never raises: it returns the raw bytes of the
\* response when the request succeeded and the boolean false when it failed,
\* by an error status or by a transport failure.
C6_ProfilePicNeverRaises ==
    returned.op = "getUserProfilePic" =>
        IF Success(returned.got)
        THEN returned.result = Returns([t |-> "buffer", of |-> returned.got.body])
        ELSE returned.result = Returns(Bool(FALSE))

C6_Witness ==
    /\ returned.op = "getUserProfilePic"
    /\ returned.got = NoResponse
    /\ returned.result = Returns(Bool(FALSE))

\* C7: an endpoint call other than getUserProfilePic sends one request and
\* no more (none when it fails validation), and when the request fails the
\* call raises the error of that request; login() raises the error of its
\* POST when the POST fails.
C7_ErrorsPropagateNoRetry ==
    /\ \A c \in Awaiting : c.op \in EndpointOps => c.nreq = 1
    /\ (returned.op \in EndpointOps \ {"getUserProfilePic"}) =>
           IF returned.pc = "validate" THEN returned.nreq = 0
           ELSE /\ returned.nreq = 1
                /\ Success(returned.got) => returned.result.k = "return"
                /\ ~Success(returned.got) =>
                       returned.result = Throws(ErrorOf(returned.got))
    /\ (returned.op = "login" /\ returned.pc = "post") =>
           /\ ~Success(returned.got)
           /\ returned.npost = 1
           /\ returned.result = Throws(ErrorOf(returned.got))

C7_Witness ==
    /\ returned.op = "getMailFolders"
    /\ returned.got = NoResponse
    /\ returned.nreq = 1
    /\ returned.result = Throws(ErrorOf(NoResponse))

\* The value sent for an argument: the argument, the default d when omitted.
SentFor(v, d) == IF v.t = "undefined" THEN d ELSE v

C9_OnlyPostLoginChangesSession ==
    [][/\ ~Constructs =>
              ((client' # client \/ file' # file) =>
                   \E c \in Awaiting : PostLoginEnds(c))
       /\ ~Truthy(client'.reuseCookies) => (~fileAccess' /\ file' = file)]_vars

C9_Witness ==
    /\ lastLogin.some
    /\ client.cookie = Arr(<<"sid=1">>)
    /\ file.exists
    /\ ~Truthy(client.reuseCookies)
    /\ returned.op = "getMailFolders"
    /\ returned.result.k = "throw"

\* C10: under reuse, whenever no login() is in flight and a POST login has
\* ended, the file holds one record, and the record and the Cookie header are
\* both the Set-Cookie value of the POST login that ended last (the empty
\* header when the response carried none).
C10_FileAgreesWithHeader ==
    (/\ Alive
     /\ Truthy(client.reuseCookies)
     /\ lastLogin.some
     /\ \A c \in Awaiting : c.op # "login") =>
        /\ file.exists
        /\ JSONparse(file.text) = [ok |-> TRUE, value |-> CookieOf(lastLogin.v)]
        /\ client.cookie = CookieOf(lastLogin.v)

====
